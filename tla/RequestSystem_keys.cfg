SPECIFICATION FairSpec
CONSTANTS
  c1 = c1
  c2 = c2
  k1 = k1
  Calls = {c1, c2}
  Methods = {"post", "put"}
  UserKeys = {k1}
  KeyArguments = {NoKey, EmptyKey, k1}
  Statuses = {200, 429, 501}
  ClientMaxRetries = 2
  RetryOption <- MCNegativeOption
  NoOption = NoOption
  NoKey = NoKey
  EmptyKey = EmptyKey
  NoReply = NoReply
INVARIANTS
  KeyedOnce
  BudgetUsed
PROPERTIES
  QuietAfterSuccess
  Termination
CHECK_DEADLOCK FALSE
