SPECIFICATION Spec
CONSTANTS
  Conns = {c1, c2}
  Devices = {d1}
  Gateways = {g1}
  None = None
  Countries <- OneCountry
  CountryOf <- CountryMap
  Registrations <- RoomForTwo
  TrafficLevels = {0}
  LeaseTTL = 1
  HeartbeatTTL = 1
  MaxTime = 0
  WordSize = 16
INVARIANTS OneLeasePerDevice
CHECK_DEADLOCK FALSE
