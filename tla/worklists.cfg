\* Two overlapping ticks and a sweep over two requests, with an exception or a
\* restart, and POSTs that are never answered.
SPECIFICATION FairSpec
CONSTANTS
  Items = {i1, i2}
  Keys = {k1, k2}
  Ticks = {t1, t2}
  Sweeps = {s1}
  MaxAttempts = 2
  MaxFaults = 1
  Nothing = Nothing
INVARIANT OpenWhenSent
PROPERTIES
  RowsClose
  
CHECK_DEADLOCK FALSE
