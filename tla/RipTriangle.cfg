SPECIFICATION FairSpec
CONSTANTS
  Router = {1, 2, 3}
  Iface = {0, 1, 2}
  Link = {11, 12, 13, 22, 23, 33}
  Prefix = {11}
  Attach <- TriangleAttach
  Distance <- HopCount
  Direct = Direct
  Infinity = 16
  MaxEntry = 25
  QueueCap = 1
  MaxCrash = 1
  MaxLoss = 1
INVARIANT DirectRoutesKept
INVARIANT NeverTooNear
INVARIANT LoopFreeAtFirst
PROPERTY RoutesOnlyImprove
PROPERTY Converges
PROPERTY ImplementsRouteService
