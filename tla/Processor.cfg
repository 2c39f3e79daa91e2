SPECIFICATION FairSpec
CONSTANTS
  WordSize = 16
  And <- MCAnd
  Or <- MCOr
  Cells = 4
  LastReg = 2
  Decode <- MCDecode
  Images <- MCMemories
  Ratio = 5
  MaxResets = 1
INVARIANT IInv
PROPERTIES ImplementsIsa StrobeFramed InstructionEnds
