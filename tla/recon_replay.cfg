\* One employee, two requests and a batch that reports two days too few,
\* applied at any point of their lives, over two days.
SPECIFICATION FairReconcilingSpec
CONSTANTS
  Keys = {k1}
  Requests = {r1, r2}
  IdemKeys = {i1}
  Retired = Retired
  Ranges <- MCRanges
  Horizon = 1
  TtlDays = 1
  MaxAttempts = 1
  Entitlements = {4}
  MaxRefreshes = 0
  MaxCrashes = 0
  MaxBatches = 1
  Ingesters = {d1}
  Divergences = {2}
  Never = Never
INVARIANTS
  
  HolderStillRight
PROPERTIES
  ReplayExact
  ReplayMeetsHcm
  IngestsEnd
CHECK_DEADLOCK FALSE
