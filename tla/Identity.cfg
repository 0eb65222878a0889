CONSTANTS
  Calls = {c1, c2}
  Watched = {c1}
  Invites = {i1, i2}
  Emails = {u1}
  Keys = {k1, k2}
  AccessTTL = 1
  LeaseTTL = 1
  None = None
SPECIFICATION WatchedSpec
INVARIANTS TypeOK RegistrationsAreExact
PROPERTIES DarkStaysDark RevokedCannotCarryOn RegistrationsFinish
