\* One employee, two requests at a time: the dispatcher and the reaper compete
\* with clients and managers for the lock.  Requests expire on the day they
\* are submitted, so both outcomes race from the start.
SPECIFICATION FairSpec
CONSTANTS
  Keys = {k1}
  Requests = {r1, r2}
  IdemKeys = {i1, i2}
  Retired = Retired
  Ranges <- MCDisjointRanges
  Horizon = 0
  TtlDays = 0
  MaxAttempts = 2
  Entitlements = {3}
  MaxRefreshes = 0
  MaxCrashes = 0
PROPERTIES
  OutboxDrains
  ExpiredIsDecided
CHECK_DEADLOCK FALSE
