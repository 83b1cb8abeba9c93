SPECIFICATION Spec
CONSTANTS
  Kinds <- AllKinds
  Configs <- SmallConfigs
  None = None
  NoSecret = NoSecret
  Mask = Mask
  Default = Default
  Surprises = 3
  n1 = n1
  n2 = n2
  b1 = b1
  b2 = b2
  s1 = s1
  s2 = s2
INVARIANTS
  AppliedIsServed
  NothingForgotten
  OwnSecretsStayKnown
PROPERTIES
  InPlaceKindsConverge
