SPECIFICATION Spec
CONSTANTS
  Router = {1, 2, 3, 4}
  Iface = {0, 1, 2}
  Link = {10, 11, 12, 23, 24, 33, 34, 44}
  Prefix = {11}
  Attach <- KiteAttach
  Distance <- HopCount
  Direct = Direct
  Infinity = 16
  MaxEntry = 25
  QueueCap = 1
  MaxCrash = 1
  MaxLoss = 0
INVARIANT PairsPoisoned
