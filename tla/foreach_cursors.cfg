SPECIFICATION Spec
SYMMETRY Symmetry
CONSTANTS
  None = None
  a = a
  b = b
  f = f
  g = g
  Vars = {a, b}
  Frames = {f, g}
  Stmts = {"outer", "inner"}
  Codes <- AnyCode
  NMaps = 3
  NSteps = 2
  MaxKeys = 4
INVARIANTS TypeOK CountsExact Registered RestIsUnseen OwnStep
PROPERTY ArraysAreValues
