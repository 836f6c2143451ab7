SPECIFICATION Spec
CONSTANTS
  None = None
  a = a
  b = b
  f = f
  g = g
  Vars = {a, b}
  Frames = {f}
  Stmts = {"outer", "inner"}
  Codes <- NestedOnly
  NMaps = 3
  NSteps = 2
  MaxKeys = 2
INVARIANT ByRefWalksLive
