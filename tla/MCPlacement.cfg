CONSTANTS
  o1 = o1
  h1 = h1
  h2 = h2
  p1 = p1
  p2 = p2
  Orgs <- OneOrg
  Hosts <- TwoHosts
  Refs <- TwoRefs
  Names = {1, 2}
  Sizes = {1, 2}
  ReplicaSizes = {1}
  Statuses = {"provisioning", "healthy"}
  Limits <- OneLimit
  Priorities = {1}
  NoHost = NoHost
SPECIFICATION Spec
INVARIANTS CapacityIsSound OwnersExist BranchRegistryClean ReplicaRoles
PROPERTIES QuotaGuardsGrowth PrimaryIsKept
SYMMETRY Interchangeable
