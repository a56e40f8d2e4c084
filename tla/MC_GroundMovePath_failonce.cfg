CONSTANTS
  p1 = p1
  p2 = p2
  NoPath = NoPath
  PathIds <- MCOnePathId
  ShortMax <- MCShortMax
  IdleLimit <- MCIdleLimit
  MaxIdlingSlowUpdates <- MCMaxIdlingSlowUpdates
  SlowRate <- MCSlowRate
SPECIFICATION Spec
PROPERTY FailedUntilNextOrder
