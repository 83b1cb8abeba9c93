SPECIFICATION StartupSpec
CONSTANTS
  Optional = {"auth", "rest", "studio"}
  Runtimes = {"compose", "kubernetes"}
  MaxRequests = 1
  MaxCrashes = 1
PROPERTY GatewayStaysUp
PROPERTY ComeUp
CHECK_DEADLOCK FALSE
