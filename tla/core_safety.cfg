\* One employee and two requests: the two lifecycles interleaved with the
\* dispatcher, the reaper, HCM, the network and a restart of the service.
\* The behaviour ends when every request is decided and the clock has stopped.
SPECIFICATION Spec
CONSTANTS
  Keys = {k1}
  Requests = {r1, r2}
  IdemKeys = {i1, i2}
  Retired = Retired
  Ranges <- MCRanges
  Horizon = 1
  TtlDays = 1
  MaxAttempts = 2
  Entitlements = {3}
  MaxRefreshes = 0
  MaxCrashes = 1
SYMMETRY MCSymmetry
INVARIANTS
  TypeOK
  
  NoDoubleBooking
  
  OneRowPerOperation
  HolderStillRight
  CountedBeforeSent
  AttemptsBounded
CHECK_DEADLOCK FALSE
