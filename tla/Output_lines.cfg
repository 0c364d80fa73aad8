CONSTANTS
  Thread = {p, q}
  NoThread = NoThread
  MaxDepth = 2
  MaxCalls = 4
SPECIFICATION Spec
INVARIANT TypeOK
PROPERTY ImplementsLineDisplay
