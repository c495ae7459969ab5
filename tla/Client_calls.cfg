CONSTANTS
  SecretKeys = {sk}
  ClientIds = {app, other}
  Bases = {eu}
  DefaultBase = api
  AccessToken = token
  GivenKey = given
  FreshKey = fresh
  None = None
  Empty = Empty
SPECIFICATION Spec
INVARIANTS
  NoSecretFromPublic
  PostsKeyed
  AnswersUnambiguous
  TwinsAgree
  FurtherPagesAreCalls
