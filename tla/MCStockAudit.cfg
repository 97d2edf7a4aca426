SPECIFICATION Spec
CONSTANTS
  Products = {p1, p2}
  Requests = {r1, r2}
  NoRequest = NoRequest
  Carts <- SingleCarts
  Discounts <- NoDiscount
  Deltas <- BothSigns
  Edited = {}
  InitialQuantity <- TwoEach
  LowStockThreshold = 1
INVARIANTS SuccessMeansCommitted
CHECK_DEADLOCK FALSE
