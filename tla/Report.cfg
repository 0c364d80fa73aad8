SPECIFICATION Spec
CONSTANTS
  Type = {"int", "void", "string", "string2", "format"}
  Stated <- MCStated
  OtherLine <- MCOtherLine
  MaxArgs = 3
  MaxLines = 2
  Name = {"f", "g"}
  UsecPerSec = 3
  WordSize = 32
  MaxDepth = 2
  MaxNow = 6
  MaxCalls = 3
  Pieces <- MCPieces
  MaxPieces = 2
  Limits = {2, 6}
  Lengths <- MCLengths
INVARIANTS
  PrototypesSound LastStatementHolds TableAddsUp RelativeTimesAddUp SummaryRight SummaryShown
  EachArgOnce OwnArgs TextsShown FormatsShown
PROPERTIES TimeShown
CHECK_DEADLOCK FALSE
