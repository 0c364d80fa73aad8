SPECIFICATION FairSpec
CONSTANTS
  f = f  g = g  r = r  s = s  x = x
  Addr = {f, g, r, s}
  SymCount <- Plainly
  Site <- TwoSites
  Sys = {3}
  SigReturn = 119
  NULL = NULL
  Elsewhere = Elsewhere
  MaxDepth = 4
  MaxStack = 3
  Env = {}
PROPERTIES ImplementsCallFlow LiftedIsReplanted InterruptReleases
