SPECIFICATION FairSpec
CONSTANTS
  Hotkeys = {a, b}
  KING0 = KING0
  NONE = NONE
  TORN = TORN
  MaxWindow = 1
  Slice = 2
  PromotionMaxAttempts = 2
  MaxFaults = 1
INVARIANTS ReignLedger CrownAfterVerify
PROPERTIES SettledIsFinal PendingResolved
CHECK_DEADLOCK FALSE
