SPECIFICATION Spec
CONSTANTS
  NTasks = 3
  Width = 2
  Budget = 3
  MaxSpend = 2
  Worth = 3
  Eps = 0
  NONE = NONE
  JUNK = JUNK
  MaxCrashes = 1
  MaxDeaths = 1
INVARIANTS PlaceholderNeverScored PaidRowsKept AllowanceBinds FutileCannotWin
CHECK_DEADLOCK FALSE
