CONSTANTS
  Proc = {a, b}
  Command = b
  NoProc = NoProc
  CacheSize = 2
SPECIFICATION FairSpec
PROPERTY CtrlCDetaches
