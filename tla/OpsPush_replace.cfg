SPECIFICATION Spec
CONSTANTS
  Rows = {r1, r2, r3}
  Ids = {p1, p2, p3, p4}
  NoId = NoId
  BadId = BadId
  NoRow = NoRow
  Plan <- SmallPlan
  Needs <- SmallNeeds
  Key <- SmallKey
  Gallery <- SmallGallery
  Faults <- AllFaults
  MaxAttempts = 3
  MaxFaults = 3
  MaxPutUps = 4
SYMMETRY Symmetry
INVARIANTS OneProductPerSlot PushReplacesChildren PushedProductExists CleanPushFailsOnReuseOnly IndInv
CHECK_DEADLOCK FALSE
