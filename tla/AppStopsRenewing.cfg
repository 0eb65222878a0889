SPECIFICATION AppSpec
CONSTANTS
  Threads = {t1, t2}
  Leases = {x1, x2}
  None = None
  DownMayFail = FALSE
  MaxFaults = 0
  MaxNotes = 3
INVARIANTS TicksRenewTheLease
