SPECIFICATION Spec
CONSTANTS
  NIface = 2
  Timeout = 1
  MaxFrames = 2
  RxCap = 2
  Present = {1}
  MaxWire = 1
  BdCount = 2
  ArpTableSize = 1
  Word = 2
  Scale = 1
  Frequency = 1
  Frame <- McFrame
  Ip <- McIp
  Group <- McGroup
  Data <- McData
INVARIANTS
  RingsSound
  Flooded
PROPERTIES
  ImplementsHal
  CallsReturn
CHECK_DEADLOCK FALSE
