CONSTANTS
  Proc = {a, b, c}
  Command = c
  NoProc = NoProc
  CacheSize = 3
  Dir = {cwd, bin}
  Cwd = cwd
  Nowhere = Nowhere
  MaxLibrary = 1
  MaxWords = 2
SPECIFICATION StartSpec
INVARIANTS TypeOK EventsHaveProcess LeavesNoInt3 AnalysedIsExecuted
PROPERTIES AlarmStopsCommands InterruptEnds
