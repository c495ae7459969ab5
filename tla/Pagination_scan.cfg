SPECIFICATION FairSpec
CONSTANTS
  Items <- MCItems
  Matching = {1, 2, 4, 5}
  Limit = 2
  BeforeParam = None
  MaxChanges = 3
  None = None
INVARIANTS
  IInv
  AheadOnly
  OnlyMatching
  Complete
PROPERTY
  IterationEnds
CHECK_DEADLOCK FALSE
