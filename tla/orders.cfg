SPECIFICATION Spec
CONSTANTS
  i1 = i1
  i2 = i2
  o1 = o1
  o2 = o2
  UnknownId = undefined
  Items = {i1, i2}
  InitialStock <- OneEach
  MaxQuantity = 1
  LowStockQty = 0
  Checkouts = {o1, o2}
  Completions = {c1, c2, c3}
  Voids = {v1}
  Carts <- OverlappingCarts
  Members = {o1}
  MaxLines = 2
  MayDie = {o1, c1, c2, c3, v1}
SYMMETRY CompletionSymmetry
INVARIANTS TypeOK StockAccounted InvoicedOrdersAreClosed OneCompletionAnswered
PROPERTIES OrderNumbersInSequence InvoiceNumbersInSequence
CHECK_DEADLOCK FALSE
