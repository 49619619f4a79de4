SPECIFICATION WeightsFairSpec
CONSTANTS
  KING0 = KING0
  NOBODY = NOBODY
  NONE = NONE
  Hotkeys = {a, b}
  Uids = {0, 1}
  KingZeroUid = NONE
  RateLimit = 1
  Refresh = 2
  MaxBackoff = 2
  MaxLag = 1
  MaxMoves = 2
  MaxReigns = 1
  MaxCrashes = 1
INVARIANTS PaysHistory
PROPERTIES OneRefusal ChainConverges
CHECK_DEADLOCK FALSE
