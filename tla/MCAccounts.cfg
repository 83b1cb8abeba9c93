CONSTANTS
  u1 = u1
  u2 = u2
  h1 = h1
  h2 = h2
  UserIds = {u1, u2}
  Handlers = {h1}
  SSO = TRUE
  SCIM = TRUE
  MaxVersion = 3
  MaxSecrets = 1
  MaxTime = 3
SPECIFICATION Spec
INVARIANTS CodesAreUsedOnce EarnedTokens ChangesEndSessions
SYMMETRY Symmetry
