SPECIFICATION FairSpec
CONSTANTS
  Router = {1, 2, 3}
  Iface = {0, 1}
  Link = {11, 12, 23, 33, 99}
  Prefix = {11, 12, 23, 33}
  Attach <- LineAttach
  Direct = Direct
  Infinity = 16
  MaxEntry = 25
  Host = {101, 103, 199}
  HostLink <- MCHostLink
  Scenario <- Scenarios
  DefaultTtl = 3
  Settled <- Shortest
CHECK_DEADLOCK FALSE
INVARIANT TypeOK
INVARIANT OneCopy
INVARIANT RightAnswer
PROPERTY Drains
PROPERTY AllAnswered
