SPECIFICATION WaitingSpec
CONSTANTS
  Conns = {c1, c2}
  Devices = {d1}
  Gateways = {g1}
  None = None
  Countries <- OneCountry
  CountryOf <- CountryMap
  Registrations <- RoomForTwo
  TrafficLevels = {0}
  LeaseTTL = 1
  HeartbeatTTL = 1
  MaxTime = 2
  WordSize = 16
PROPERTIES ConnectsFinish OverdueLeasesEnd FailoverHappens
CHECK_DEADLOCK FALSE
