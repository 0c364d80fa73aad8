SPECIFICATION Spec
CONSTANTS
  f = f  g = g  r = r  s = s  x = x
  Addr = {f, g, r, s}
  SymCount <- Plainly
  Site <- TwoSites
  Sys = {3}
  SigReturn = 119
  NULL = NULL
  Elsewhere = Elsewhere
  MaxDepth = 3
  MaxStack = 2
  Env = {"longjmp", "tailcall"}
INVARIANTS CallsSeen LiveCallsKept NeverDerailed SyscallFramesMatchKernel
