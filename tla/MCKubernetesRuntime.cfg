SPECIFICATION Spec
CONSTANTS
  Services = {db, storage}
  Optional = {storage}
  OtherKinds = {"ProjectAuthHooks", "RetainedProjectResources"}
  Slots = {r1, r2}
  Modes = {TRUE, FALSE}
  None = None
  MaxRequests = 2
  MaxSurprises = 1
  db = db
  storage = storage
  r1 = r1
  r2 = r2
INVARIANTS
  WorkloadsAreIsolated
  NamespaceIsOwned
  StatusIsTruthful
PROPERTIES
  RetainedVolumesSurvive
  Converges
