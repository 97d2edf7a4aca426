SPECIFICATION FairSpec
CONSTANTS
  Products = {p1, p2}
  Requests = {r1, r2, r3}
  NoRequest = NoRequest
  Carts <- PosCarts
  Discounts <- GoodOrBadDiscount
  Deltas <- BothSigns
  Edited = {p1}
  InitialQuantity <- TwoEach
  LowStockThreshold = 1
INVARIANTS TypeOK Ledger SaleAccounted NonNegative AlertsAreCommitted NoStandstill
PROPERTIES RequestsTerminate ActiveWhenSold ImplementsLedger
