SPECIFICATION Spec
CONSTANTS
  Rows = {r1, r2, r3}
  Ids = {p1, p2, p3, p4}
  NoId = NoId
  BadId = BadId
  NoRow = NoRow
  Plan <- OptionPlan
  Needs <- OptionNeeds
  Key <- OptionKey
  Gallery <- SmallGallery
  Faults = {"refused","clear"}
  MaxAttempts = 3
  MaxFaults = 3
  MaxPutUps = 4
SYMMETRY Symmetry
INVARIANT PushedIsComplete
CHECK_DEADLOCK FALSE
