SPECIFICATION Spec
CONSTANTS
  c1 = c1
  c2 = c2
  k1 = k1
  Calls = {c1, c2}
  Methods = {"post", "put"}
  UserKeys = {k1}
  KeyArguments = {NoKey, k1}
  Statuses = {200, 404, 503}
  ClientMaxRetries = 1
  RetryOption <- MCBothDefault
  NoOption = NoOption
  NoKey = NoKey
  EmptyKey = EmptyKey
  NoReply = NoReply
INVARIANTS
  IInv
  PostOnce
  SuccessIsBacked
  RefusalIsDefinite
PROPERTY
  PromiseKept
CHECK_DEADLOCK FALSE
