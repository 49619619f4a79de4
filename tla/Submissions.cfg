SPECIFICATION SubmissionsFairSpec
CONSTANTS
  Hotkeys = {hk1, hk2}
  MaxReg = 2
  NONE = NONE
  WATCH = WATCH
  CLI = CLI
  DAEMON = DAEMON
  Writers = {WATCH, CLI, DAEMON}
  Generations = 2
  PerPass = 1
  Miners = {hk1}
  MaxUpsets = 1
INVARIANT RevocationList
PROPERTIES OwedIsKept SignalledIsKept FirstCredentialArrives
CHECK_DEADLOCK FALSE
