\* Two employees, two batches, two of them handled at a time, with failures, a
\* restart and batches sent again.
SPECIFICATION ReconcilingSpec
CONSTANTS
  Keys = {k1, k2}
  Requests = {r1}
  IdemKeys = {i1}
  Retired = Retired
  Ranges <- MCRange
  Horizon = 0
  TtlDays = 1
  MaxAttempts = 1
  Entitlements = {4}
  MaxRefreshes = 0
  MaxCrashes = 1
  MaxBatches = 2
  Ingesters = {d1, d2}
  Divergences = {0}
  Never = Never
SYMMETRY MCSymmetry
INVARIANT LoggedIsWhole
 
CHECK_DEADLOCK FALSE
