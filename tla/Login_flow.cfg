SPECIFICATION Spec
CONSTANTS
  c1 = c1
  c2 = c2
  l1 = l1
  l2 = l2
  Calls = {c1, c2}
  Logins = {l1, l2}
  ClientIds = {other}
  Configured = app
  Challenges = {"radar_challenge", "sso_required"}
  None = None
  Methods = {"post"}
  UserKeys = {}
  KeyArguments = {NoKey}
  Statuses = {200, 400, 403, 503}
  ClientMaxRetries = 1
  RetryOption <- MCAllDefault
  NoOption = NoOption
  NoKey = NoKey
  EmptyKey = EmptyKey
  NoReply = NoReply
SYMMETRY Symmetry
INVARIANTS
  IInv
  LoginsApart
  GrantsFit
  GrantsNotWasted
  StepsNamed
PROPERTIES
  GrantActsAsKey
CHECK_DEADLOCK FALSE
