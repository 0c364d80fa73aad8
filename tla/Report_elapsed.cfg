SPECIFICATION Spec
CONSTANTS
  Type = {"int", "void", "string", "string2", "format"}
  Stated <- MCStated
  OtherLine = {}
  MaxArgs = 3
  MaxLines = 1
  Name = {"f", "g"}
  UsecPerSec = 3
  WordSize = 32
  MaxDepth = 2
  MaxNow = 6
  MaxCalls = 2
  Pieces = {}
  MaxPieces = 0
  Limits = {2}
  Lengths <- MCLengths
PROPERTIES TimeIsElapsed
CHECK_DEADLOCK FALSE
