CONSTANTS
  u1 = u1
  u2 = u2
  h1 = h1
  h2 = h2
  UserIds = {u1, u2}
  Handlers = {h1, h2}
  SSO = FALSE
  SCIM = FALSE
  MaxVersion = 4
  MaxSecrets = 0
  MaxTime = 2
SPECIFICATION Spec
INVARIANTS AdminRemains
SYMMETRY Symmetry
