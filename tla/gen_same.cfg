SPECIFICATION Spec
CONSTANTS
  g1 = g1
  g2 = g2
  f1 = f1
  m = m
  Gens = {g1, g2}
  Fibers = {f1}
  Main = m
  Fn <- OneFunction
  Kinds <- SomeKinds
  Drives <- Nested
  Raisers = {g1, g2, f1}
  MaxNest <- FirstNests
  MaxPending = 2
CHECK_DEADLOCK FALSE
INVARIANT HandlersMatch
