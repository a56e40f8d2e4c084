CONSTANTS
  p1 = p1
  p2 = p2
  NoPath = NoPath
  PathIds <- MCPathIds
  ShortMax <- MCShortMax
  IdleLimit <- MCIdleLimit
  MaxIdlingSlowUpdates <- MCMaxIdlingSlowUpdates
  SlowRate <- MCSlowRate

SPECIFICATION Spec
INVARIANT TypeOK
INVARIANT PathHeldAlone
INVARIANT PathOnlyWhileActive
PROPERTY PathRequestRetried
