SPECIFICATION Spec
CONSTANTS
  c1 = c1
  c2 = c2
  k1 = k1
  Calls = {c1, c2}
  Methods = {"post", "put"}
  UserKeys = {k1}
  KeyArguments = {NoKey}
  Statuses = {404, 503}
  ClientMaxRetries = 2
  RetryOption <- MCBothDefault
  NoOption = NoOption
  NoKey = NoKey
  EmptyKey = EmptyKey
  NoReply = NoReply
INVARIANT
  ErrorsTyped
CHECK_DEADLOCK FALSE
