CONSTANTS
  Contenders = 3
  Free = 2
  MaxDead = 1
  NOBODY = NOBODY
  Slice <- MCSlice
  Graded <- MCGraded
SPECIFICATION VerdictSpec
INVARIANTS HandoversAddUp CopyTakesNothing UnansweredDecidesNothing
CHECK_DEADLOCK FALSE
