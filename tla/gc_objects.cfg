SPECIFICATION Spec
CONSTANTS
  o1 = o1
  Maps = {}
  Objects = {o1,o2}
  Keys = {k1,k2}
  Nil = Nil
  HasDtor = {o1}
  Weak = {}
  Walkable = {}
  Aliasable <- OneSlot
  MayDisable = TRUE
  MaxExt = 1
  ThresholdMin = 3
  ThresholdMax = 3
CHECK_DEADLOCK FALSE
INVARIANTS CountsExact DebtSettled ReachableIsKept ColorsClean NothingNamesFreed CutFreesNothing TornOnce
PROPERTY CutMembersDie
