SPECIFICATION Spec
CONSTANTS
  b1 = b1
  b2 = b2
  w1 = w1
  w2 = w2
  w3 = w3
  Branches = {b1, b2, b3}
  Rows = {w1, w2, w3}
  BranchOf <- TwoAtTheFirst
  InitialStock <- TwoEach
  Staff = {s1, s2}
  MaxQuantity = 1
  Transfers = {x1, x2}
  Requests = {r1, r2, r3}
  Corrections = {a1}
  Deltas <- DownAndUp
SYMMETRY TransferSymmetry
INVARIANTS TypeOK StockFollowsCompletions
PROPERTIES LogFollowsWorkflow
CHECK_DEADLOCK FALSE
