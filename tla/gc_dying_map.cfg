SPECIFICATION Spec
CONSTANTS
  o1 = o1
  Maps = {m1}
  Objects = {o1}
  Keys = {k1,k2}
  Nil = Nil
  HasDtor = {o1}
  Weak = {}
  Walkable = {}
  Aliasable <- NoSlots
  MayDisable = FALSE
  MaxExt = 1
  ThresholdMin = 3
  ThresholdMax = 3
INVARIANTS
  TornOnce
CHECK_DEADLOCK FALSE
