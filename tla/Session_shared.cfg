SPECIFICATION FairSpec
CONSTANTS
  s1 = s1
  s2 = s2
  r1 = r1
  r2 = r2
  r3 = r3
  a1 = a1
  k1 = k1
  k2 = k2
  Sessions = {s1, s2}
  Refreshes = {r1, r2, r3}
  Auths = {a1}
  SessionOf <- MCShared
  Passwords = {k1, k2}
  CookieKey = k1
  InitialPassword <- MCOneWrongPassword
  NoPassword = NoPassword
  Original = Original
  NoCookie = NoCookie
  NoKey = NoKey
  Retries = 0
  Grace = FALSE
INVARIANTS
  IInv
  SealKeyStable
  TornCommitHarmless
  StrandedOnlyByLoss
  OneSessionGoesOn
PROPERTIES
  InvocationsEnd
  RefreshesAtomic
CHECK_DEADLOCK FALSE
