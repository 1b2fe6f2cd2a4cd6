\* Two employees whose clients reuse one idempotency key while the dispatcher
\* waits for HCM and HCM changes a balance of its own.  Requests expire on the
\* day they are submitted.
SPECIFICATION Spec
CONSTANTS
  Keys = {k1, k2}
  Requests = {r1, r2}
  IdemKeys = {i1}
  Retired = Retired
  Ranges <- MCDisjointRanges
  Horizon = 0
  TtlDays = 0
  MaxAttempts = 2
  Entitlements = {3}
  MaxRefreshes = 1
  MaxCrashes = 0
SYMMETRY MCSymmetry
INVARIANTS
  OneRequestPerKey
  HolderStillRight
PROPERTIES
  DecidedIsFinal
  FollowsLifecycle
CHECK_DEADLOCK FALSE
