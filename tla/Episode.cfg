SPECIFICATION EpisodeSpec
CONSTANTS
  NArms = 2
  Tasks = {t1}
  Models = {m1, m2}
  MaxSteps = 2
  MaxReads = 1
  ParseLimit = 2
  Budget = 2
  MaxDeaths = 1
  Wanted = {w1, w2}
  Regression = {g1}
  NONE = NONE
INVARIANTS TwinsTie RebuysNothing EveryDollarIsRecorded HarnessIsNotScored
CHECK_DEADLOCK FALSE
