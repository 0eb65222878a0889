SPECIFICATION FairSpec
CONSTANTS
  Threads = {t1}
  Leases = {x1}
  None = None
  DownMayFail = FALSE
  MaxFaults = 0
PROPERTIES LossIsNoticed
