SPECIFICATION Spec
CONSTANTS
  Products = {p1, p2}
  Requests = {r1, r2}
  NoRequest = NoRequest
  Carts <- DuplicateCarts
  Discounts <- NoDiscount
  Deltas <- NoDeltas
  Edited = {}
  InitialQuantity <- TwoEach
  LowStockThreshold = 1
INVARIANTS NonNegative
CHECK_DEADLOCK FALSE
