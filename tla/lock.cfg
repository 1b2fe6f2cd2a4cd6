\* Four calls on two keys with a test latch, functions that hang, and arrivals
\* and departures between any two awaits.
SPECIFICATION FairSpec
CONSTANTS
  Calls = {c1, c2, c3, c4}
  Keys = {k1, k2}
  Resolved = Resolved
  MaxLatches = 1
INVARIANTS
  MutualExclusion
  EntryIffUsed
PROPERTIES
  ImplementsFifo
  EveryCallServed
CHECK_DEADLOCK FALSE
