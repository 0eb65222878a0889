SPECIFICATION RequestSpec
CONSTANTS
  Conns = {c1, c2, c3}
  Devices = {d1, d2}
  Gateways = {g1, g2}
  None = None
  Countries <- OneCountry
  CountryOf <- CountryMap
  Registrations <- TwoBlocks
  TrafficLevels = {0}
  LeaseTTL = 1
  HeartbeatTTL = 1
  MaxTime = 0
  WordSize = 16
SYMMETRY Symmetry
INVARIANTS NoSharedAddress AddressStillFree FoundLeasesReplaced
PROPERTIES ReconnectIsAtomic
CHECK_DEADLOCK FALSE
