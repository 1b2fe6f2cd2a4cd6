\* A FILE lands but its answer is lost, then the request is withdrawn.
SPECIFICATION Spec
CONSTANTS
  Keys = {k1}
  Requests = {r1}
  IdemKeys = {i1, i2}
  Retired = Retired
  Ranges <- MCDisjointRanges
  Horizon = 1
  TtlDays = 1
  MaxAttempts = 2
  Entitlements = {3}
  MaxRefreshes = 0
  MaxCrashes = 0
INVARIANT LandedIsReversed
CHECK_DEADLOCK FALSE
