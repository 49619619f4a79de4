SPECIFICATION ServingSpec
CONSTANTS
  Good = {alice, bob, carol}
  Corrupt = {mallory}
  Crashers = {}
  Slow = {sloth}
  Copies = {alice, carol}
  Count = 2
  Threads = {t1, t2}
  Modes = {"managed", "local"}
  NONE = NONE
  MaxUpsets = 2
INVARIANTS OwnWeightsAnswer ChargedIsAtFault EvictionIsInvisible
CHECK_DEADLOCK FALSE
