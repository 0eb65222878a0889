SPECIFICATION AppsSpec
CONSTANTS
  Threads = {t1, t2, t3}
  Leases = {x1, x2, x3, x4}
  None = None
  DownMayFail = TRUE
  MaxFaults = 2
SYMMETRY Symmetry
INVARIANTS TypeOK NeverStuck NoStrayLease OffMeansOff
