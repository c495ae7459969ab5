SPECIFICATION Spec
CONSTANTS
  Items <- MCItems
  Matching = {1, 2, 4, 5}
  Limit = 2
  BeforeParam = 4
  MaxChanges = 1
  None = None
INVARIANT
  BeforeStripped
CHECK_DEADLOCK FALSE
