SPECIFICATION FairSpec
CONSTANTS
  c1 = c1
  c2 = c2
  p1 = p1
  m1 = m1
  NONE = NONE
  JUNK = JUNK
  PayerOf <- OneArm
  Journals <- MCJournals
  Callers = {c1, c2}
  Payers = {p1}
  Models = {m1}
  Costs = {0, 2}
  MaxWindow = 2
  Amounts = {1}
  MaxCalls = 3
  MaxCredits = 1
  MaxBalance = 4
  MaxEvents = 1
INVARIANTS OverrunIsOneCall NeverDoubleCounts AuditReconciles
PROPERTIES UnfundedIsReal EveryCallEnds
CHECK_DEADLOCK FALSE
