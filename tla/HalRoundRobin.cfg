SPECIFICATION FairSpec
CONSTANTS
  NIface = 2
  Ip = {a}
  Period = 1
  Timeout = 2
  ArpLimit = 1
  BufCap = 1
PROPERTY RoundRobin
