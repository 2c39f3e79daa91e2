SPECIFICATION Spec
CONSTANTS
  Width = 2
  Value = {v, w}
  Foreign <- MCForeign
  Base = 4
  NWords = 4
  TtlWord = 2
  SumWord = 3
  MaskBits = 3
  Infinity = 16
  Wire <- MCWire
CHECK_DEADLOCK FALSE
INVARIANT TypeOK
INVARIANT LongestPrefix
INVARIANT ForwardExact
INVARIANT RightAccepted
INVARIANT AcceptsLegal
PROPERTY Returns
PROPERTY Restored
