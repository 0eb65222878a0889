SPECIFICATION Spec
CONSTANTS
  Conns = {c1, c2}
  Devices = {d1}
  Gateways = {g1}
  None = None
  Countries <- OneCountry
  CountryOf <- CountryMap
  Registrations <- RoomForTwo
  TrafficLevels = {0}
  LeaseTTL = 1
  HeartbeatTTL = 1
  MaxTime = 2
  WordSize = 16
SYMMETRY Symmetry
INVARIANTS TypeOK LockDiscipline NoSharedAddress AddressStillFree
PROPERTIES ReconnectIsAtomic NoPrematureExpiry EndedLeasesAreFrozen ImplementsLedger
CHECK_DEADLOCK FALSE
