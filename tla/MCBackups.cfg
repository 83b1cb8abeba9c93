SPECIFICATION Spec
CONSTANTS
  t1 = t1
  t2 = t2
  b1 = b1
  b2 = b2
  h1 = h1
  Targets <- TargetsDef
  Buckets <- BucketsDef
  OffHost <- OneBucketDef
  None = None
  Handlers <- HandlersDef
  RequireReady = FALSE
  PerSecond = 2
  Period = 2
  Interval = 1
  Retention = 2
  MaxTime = 3
  MaxJobs = 2
  MaxEvents = 1
INVARIANTS TargetsConsistent OffHostCopiesMatch NothingFromTheFuture ScheduledOncePerPeriod
SYMMETRY Perms
