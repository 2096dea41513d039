SPECIFICATION FairSpec
CONSTANTS
  Items = {i1}
  UnknownId = unknown
  Requests = {r1, r2, r3}
  MaxInFlight = 2
  Operations <- EveryOperation
  InitialStock <- StockOfTwo
  MaxQuantity = 2
  BodyQuantities <- AnyBody
  Deltas <- UpToTwoDeltas
  LowStockQty = 1
INVARIANTS TypeOK QuantityNeverNegative ReservedIsLedger OversellBounded
PROPERTIES LowStockReported
CHECK_DEADLOCK FALSE
