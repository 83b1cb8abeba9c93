CONSTANTS
  o1 = o1
  o2 = o2
  u1 = u1
  u2 = u2
  u3 = u3
  t1 = t1
  t2 = t2
  e1 = e1
  e2 = e2
  e3 = e3
  s1 = s1
  p1 = p1
  p2 = p2
  OrgIds = {o1, o2}
  UserIds = {u1, u2}
  TeamIds = {t1, t2}
  Emails = {e1, e2}
  Slugs = {s1}
  Refs = {p1}
  Roles = {"viewer", "admin"}
SPECIFICATION Spec
INVARIANTS MapsAgree ReviewMatchesAuthorisation
PROPERTY RenameKeepsAccess
SYMMETRY Symmetry
