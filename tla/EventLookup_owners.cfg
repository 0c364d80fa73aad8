CONSTANTS
  cmd = cmd
  p1 = p1
  p2 = p2
  p3 = p3
  Tid = {cmd, p1, p2, p3}
  Opened = {p1, p2, p3}
  Tgid <- Self
  NoTgid = NoTgid
  CacheSize = 4
  MaxThreads = 2
SPECIFICATION FairSpec
INVARIANTS TypeOK CacheTrue OwnersFound
PROPERTY StopHandled
