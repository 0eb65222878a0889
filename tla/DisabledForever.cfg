SPECIFICATION FairSpec
CONSTANTS
  Keys = {k1, k2}
  Addrs = {a1, a2}
  None = None
  MaxFaults = 0
  MaxChanges = 0
  MaxStops = 1
PROPERTIES RestartedBecomesHealthy
