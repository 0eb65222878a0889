SPECIFICATION AlgorithmsSpec
CONSTANTS
  WordSize = 16
  MaxCands = 3
  MaxField = 2
  MeterWord = 16
  MaxClock = 3
  MaxCounter = 2
  Keys = {ip1, ip2}
  AuthRatePerMin = 2
  AuthBurst = 2
  TrustProxy = TRUE
  Minute = 4
  TTL = 4
  MaxTime = 10
  None = None
INVARIANTS FullOnlyWhenFull BestIsFirstMaximum LessLoadKeepsWinning
INVARIANTS RateIsTrue ShareInRange TypeOK WindowBound
PROPERTIES AllocatesLowestFreeHost ImplementsTokenBucket
CHECK_DEADLOCK FALSE
