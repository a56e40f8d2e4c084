CONSTANTS
  p1 = p1
  NoPath = NoPath
  PathIds <- MCPathIds
  ShortMax <- MCShortMax
  IdleLimit <- MCIdleLimit
  MaxIdlingSlowUpdates <- MCMaxIdlingSlowUpdates
  SlowRate <- MCSlowRate
SPECIFICATION UnitSpec
PROPERTY NoStallFailWhileSkidding
