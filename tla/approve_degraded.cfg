\* HCM lowers the balance, then cannot be reached for an approval.
SPECIFICATION Spec
CONSTANTS
  Keys = {k1}
  Requests = {r1, r2}
  IdemKeys = {i1, i2}
  Retired = Retired
  Ranges <- MCDisjointRanges
  Horizon = 1
  TtlDays = 1
  MaxAttempts = 2
  Entitlements = {1, 4}
  MaxRefreshes = 1
  MaxCrashes = 0
INVARIANT NoNegativeFromApproved
CHECK_DEADLOCK FALSE
