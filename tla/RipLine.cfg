SPECIFICATION FairSpec
CONSTANTS
  Router = {1, 2, 3}
  Iface = {0, 1}
  Link = {11, 12, 23, 33}
  Prefix = {11, 33}
  Attach <- LineAttach
  Distance <- HopCount
  Direct = Direct
  Infinity = 3
  MaxEntry = 1
  QueueCap = 2
  MaxCrash = 1
  MaxLoss = 1
INVARIANT IInv
INVARIANT NexthopOnInterface
INVARIANT PoisonedReverse
INVARIANT CompleteUpdate
PROPERTY Converges
