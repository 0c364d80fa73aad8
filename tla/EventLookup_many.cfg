CONSTANTS
  cmd = cmd
  p1 = p1
  p2 = p2
  p3 = p3
  Tid = {cmd, p1, p2, p3}
  Opened = {p1, p2, p3}
  Tgid <- Self
  NoTgid = NoTgid
  CacheSize = 3
  MaxThreads = 2
SPECIFICATION Spec
INVARIANT RunsUntilExit
