SPECIFICATION ScheduleFairSpec
CONSTANTS
  NONE = NONE
  Governance = governance
  Final = 2
  Nonce <- MCNonce
  Configs <- MCConfigs
  Subnet <- MCSubnet
  RefreshBlocks = 4
  Depth = 2
  Duels = 1
  MaxFaults = 2
  MaxStarts = 2
INVARIANTS OneWorldPerWindow RunsAsCommitted
PROPERTIES OpenWindowIsRun
CHECK_DEADLOCK FALSE
