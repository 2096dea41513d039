SPECIFICATION Spec
CONSTANTS
  i1 = i1
  i2 = i2
  o1 = o1
  o2 = o2
  UnknownId = undefined
  Items = {i1}
  InitialStock <- TwoEach
  MaxQuantity = 1
  LowStockQty = 0
  Checkouts = {o1, o2}
  Completions = {c1, c2}
  Voids = {}
  Carts <- SingleCarts
  Members = {o1}
  MaxLines = 1
  MayDie = {}
INVARIANT CompletedIsInvoiced
CHECK_DEADLOCK FALSE
