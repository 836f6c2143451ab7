SPECIFICATION FairSpec
CONSTANTS
  o1 = o1
  Maps = {m1,m2}
  Objects = {o1}
  Keys = {k1}
  Nil = Nil
  HasDtor = {}
  Weak = {o1}
  Walkable = {m1,o1}
  Aliasable <- NoSlots
  MayDisable = FALSE
  MaxExt = 1
  ThresholdMin = 2
  ThresholdMax = 3
CHECK_DEADLOCK FALSE
INVARIANTS TypeOK NoGarbageLost
PROPERTY RoundEnds
