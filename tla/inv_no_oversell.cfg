SPECIFICATION Spec
CONSTANTS
  Items = {i1}
  UnknownId = unknown
  Requests = {r1, r2}
  MaxInFlight = 2
  Operations <- ReserveOnly
  InitialStock <- StockOfOne
  MaxQuantity = 1
  BodyQuantities = {}
  Deltas <- NoDeltas
  LowStockQty = 0
INVARIANT NoOversell
CHECK_DEADLOCK FALSE
