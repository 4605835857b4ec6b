SPECIFICATION Spec
CONSTANTS
  s1 = s1
  s2 = s2
  p1 = p1
  p2 = p2
  p3 = p3
  Slots = {s1, s2}
  Shapes <- OrderShapes
  MaxReplacements = 1
  MaxReturns = 1
SYMMETRY SlotSymmetry
CHECK_DEADLOCK FALSE
INVARIANTS ProductionSound GoodsOrMoney
PROPERTIES CustomerPromise
