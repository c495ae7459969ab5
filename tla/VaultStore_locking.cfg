SPECIFICATION Spec
CONSTANTS
  c1 = c1
  c2 = c2
  Calls = {c1, c2}
  Methods = {"put", "delete"}
  UserKeys = {}
  KeyArguments = {NoKey}
  Statuses = {200, 404, 409, 503}
  ClientMaxRetries = 1
  RetryOption <- MCBothRetry
  NoOption = NoOption
  NoKey = NoKey
  EmptyKey = EmptyKey
  NoReply = NoReply
  Initial = Initial
  NoCheck = NoCheck
  Deleted = Deleted
INVARIANTS
  IInv
  SuccessReplaces
PROPERTIES
  SettledIsQuiet
  CheckActsAsKey
  ObjectAtomic
CHECK_DEADLOCK FALSE
