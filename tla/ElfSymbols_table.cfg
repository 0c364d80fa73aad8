CONSTANTS
  a = a  b = b  c = c
  Addr = {a, b, c}
  Hash <- Numbered
  TableSize = 2
  Name = {m, n}
  MaxSymbols = 3
  MaxHeld = 1
  MaxLibrary = 1
  MaxOthers = 1
SPECIFICATION ElfSpec
INVARIANTS TypeOK CountsWanted TracesFunctions
PROPERTY ImplementsBreakpoints
CHECK_DEADLOCK FALSE
