SPECIFICATION FairSpec
CONSTANTS
  p1 = p1
  p2 = p2
  p3 = p3
  Replicas <- PodsDef
  NoHolder = NoHolder
  Interval = 1
  TryTicks = 4
  RoundTicks = 5
  MaxFaults = 1
PROPERTIES LeaseHonoured LeadershipRecovers
