SPECIFICATION TransferFairSpec
CONSTANTS
  Files = {f1, f2}
  Attempts = 2
  MaxFaults = 2
  MaxCrashes = 1
  NONE = NONE
INVARIANTS RefusedIsTheMiners MarkedIsJudged
PROPERTY SoundIsPublished
CHECK_DEADLOCK FALSE
