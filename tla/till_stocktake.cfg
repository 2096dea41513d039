CONSTANTS
  i1 = i1
  w1 = w1
  r1 = r1
  o1 = o1
  o2 = o2
  k1 = k1
  k2 = k2
  k3 = k3
  None = None
  Parts = {"stocktake"}
  Skus = {i1}
  Price <- MCPrice
  Discounts <- PercentDiscounts
  MaxUnits = 2
  Lookups <- Pair
  Approvals <- Pair
  Redemptions <- MCRedemptions
  OrderDiscounts <- MCOrderDiscounts
  WalkIns = {w1}
  Reservations = {r1}
  Presses <- Pair
  MaxLoads = 2
  Sessions = {o1}
  Scans = {k1, k2}
  Syncs <- Pair
  KeyCalls = {k1, k2, k3}
  MaxChallenges = 2
  MaxCount = 1
SPECIFICATION TillSpec
INVARIANT ScansCanBeSent
CHECK_DEADLOCK FALSE
