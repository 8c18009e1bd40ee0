SPECIFICATION Spec
CONSTANTS
  Rows = {r1, r2, r3}
  Ids = {p1, p2, p3, p4}
  NoId = NoId
  BadId = BadId
  NoRow = NoRow
  Plan <- OptionPlan
  Needs <- OptionNeeds
  Key <- OptionKey
  Gallery <- SmallGallery
  Faults <- AllFaults
  MaxAttempts = 3
  MaxFaults = 2
  MaxPutUps = 4
SYMMETRY Symmetry
INVARIANTS OneProductPerSlot PushReplacesChildren PushedProductExists CleanPushFailsOnReuseOnly IndInv
CHECK_DEADLOCK FALSE
