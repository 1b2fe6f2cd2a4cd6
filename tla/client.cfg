\* Two dispatches of a FILE with three tries each, a restart, and an HCM that
\* answers, refuses or times out as it likes.
SPECIFICATION FairSpec
CONSTANTS
  Operation = "FILE"
  CommandDays = 2
  MaxTries = 3
  MaxCalls = 2
  MaxRestarts = 1
  Balances <- MCBalances
  Scenarios = {"correct", "timeout"}
  None = None
INVARIANTS
  AppliedOnce
  OkIsApplied
  TriesBounded
PROPERTIES
  ImplementsCommand
  
CHECK_DEADLOCK FALSE
