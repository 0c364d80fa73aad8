SPECIFICATION Spec
CONSTANTS
  f = f  g = g  r = r  s = s  x = x
  Addr = {f, r, x}
  SymCount <- Aliased
  Site <- OverlapSite
  Sys = {3}
  SigReturn = 119
  NULL = NULL
  Elsewhere = Elsewhere
  MaxDepth = 3
  MaxStack = 1
  Env = {"signal", "sigreturn", "longjmp", "tailcall", "untraced"}
INVARIANTS TypeOK RefCount PlantedIff CleanDetach
