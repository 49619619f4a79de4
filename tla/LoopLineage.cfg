SPECIFICATION UncutSpec
CONSTANTS
  Hotkeys = {a, b}
  KING0 = KING0
  NONE = NONE
  TORN = TORN
  MaxWindow = 2
  Slice = 1
  PromotionMaxAttempts = 2
  MaxFaults = 1
SYMMETRY Symmetry
PROPERTIES OneShot LedgerSpec
CHECK_DEADLOCK FALSE
