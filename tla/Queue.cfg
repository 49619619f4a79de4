SPECIFICATION FairSpec
CONSTANTS
  Count = 3
  NONE = NONE
  Stages <- MCStages
  Probed = {"fetch"}
  Fates <- MCFates
  MaxQueueDepth = 2
  MaxDuels = 2
  MaxDeferrals = 1
  MaxMute = 1
  MaxUpsets = 2
INVARIANTS SoundTreeIsDuelled
PROPERTY FundedIsJudged
CHECK_DEADLOCK FALSE
