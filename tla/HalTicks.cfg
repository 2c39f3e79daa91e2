SPECIFICATION Spec
CONSTANTS
  NIface = 2
  Timeout = 5
  MaxFrames = 0
  RxCap = 2
  Present = {1}
  MaxWire = 0
  BdCount = 2
  ArpTableSize = 1
  Word = 16
  Scale = 4
  Frequency = 4
  Frame <- McFrame
  Ip <- McIp
  Group <- McGroup
  Data <- McData
PROPERTY
  TimeoutKept
CHECK_DEADLOCK FALSE
