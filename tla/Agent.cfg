SPECIFICATION FairSpec
CONSTANTS
  Keys = {k1, k2}
  Addrs = {a1, a2}
  None = None
  MaxFaults = 2
  MaxChanges = 4
  MaxStops = 1
INVARIANTS TypeOK TokenIsCurrent SyncIsExact
PROPERTIES PeersInUseAreLeftAlone Converges RunningBecomesHealthy
