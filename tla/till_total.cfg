CONSTANTS
  i1 = i1
  w1 = w1
  r1 = r1
  o1 = o1
  o2 = o2
  k1 = k1
  k2 = k2
  k3 = k3
  None = None
  Parts = {"cart"}
  Skus = {i1}
  Price <- MCPrice
  Discounts <- FlatDiscounts
  MaxUnits = 2
  Lookups <- Pair
  Approvals <- Pair
  Redemptions = {0}
  OrderDiscounts = {0}
  WalkIns = {w1}
  Reservations = {r1}
  Presses <- Pair
  MaxLoads = 2
  Sessions <- Pair
  Scans = {k1, k2}
  Syncs <- Pair
  KeyCalls = {k1, k2, k3}
  MaxChallenges = 2
  MaxCount = 1
SPECIFICATION TillSpec
INVARIANT ScreenTotalIsCharged
CHECK_DEADLOCK FALSE
